---- MODULE Spec2Model ----
(***************************************************************************)
(* State-machine model of the search debugger view controller              *)
(* (src/src/searchDebugger/SearchDebuggerView.ts): the relay of search     *)
(* events to the webview, the visibility gate of postMessage, the state    *)
(* log binding and the log-line correlation cache.                         *)
(*                                                                         *)
(* One action is one run of a handler up to its next await.  The           *)
(* continuation of a handler suspended at an await is an entry of `tasks`  *)
(* and is resumed by an action of its own, in any order.                   *)
(***************************************************************************)
EXTENDS Integers, Sequences, FiniteSets, TLC

\* ------------------------------------------------------------- bounds
\* states a search source may hold (ids 1..MaxStates)
MaxStates == 2
\* lines a log document may hold
MaxLines == 3
\* handler continuations that may be suspended at an await at one time
MaxTasks == 2
\* continuations that may be suspended when selections overlap
MaxOverlap == 4
\* events the history keeps
MaxHistory == 4
\* nodes a search tree of the plugin may hold
MaxNodes == 3
\* call chains of initialisePlanimation, one for each click on 'Planimate'
MaxChains == 2

\* ------------------------------------------------------ small domains
Sources == {"s1", "s2"}
NoSearch == "undefined"
Files == {"uri1", "uri2"}
NoFile == "undefined"
Kinds == {"stateAdded", "stateUpdated", "betterState", "planFound"}
OrigIds == {1, 2}
\* a log line is a noise line (0) or a line "id=<k> expanded" (k)
LineTexts == {0} \cup OrigIds
PatternDefault == ""
PatternId == "id=(\\d+)"
Patterns == {PatternDefault, PatternId}
SubGoals == {"g1"}
Ports == {8899}
NoLine == -1

VARIABLES
    webViewPanel,                 \* "none" (undefined) | "hidden" | "visible"
    stateChangedWhileViewHidden,  \* BOOLEAN
    search,                       \* NoSearch or the observed source
    subscriptions,                \* the Disposables the view holds: <<source, kind>>
    stateLogFile,                 \* NoFile or the bound log file
    stateLogEditor,               \* NoFile or the file the bound editor shows
    stateLogLineCache,            \* [OrigIds -> line index or NoLine]
    debuggerState,                \* "undefined" | "true" | "false"
    port,                         \* 0 (undefined) or a port
    tasks,                        \* continuations suspended at an await
    \* the environment
    nStates,                      \* [Sources -> 0..MaxStates]: states each source knows
    listeners,                    \* <<source, kind>> listeners registered and not disposed
    logLines,                     \* [Files -> Seq(LineTexts)]: each document's lines
    docClosed,                    \* stateLogEditor.document.isClosed
    stateLogPattern,              \* configuration pddlSearchDebugger.stateLogPattern
    sendFails,                    \* webview.postMessage throws
    \* what the last step did
    lastOp,                       \* the handler that ran, with its inputs
    sent,                         \* commands handed to webview.postMessage, in order
    fx,                           \* other side effects of the step (tags)
    revealed,                     \* line revealed at the top of the log editor, or NoLine
    \* the HTTP helpers
    http,                         \* the helper call in progress, or NoRequest
    \* a history variable, the view does not read it
    history,                      \* the selections handled and the plans and images
                                  \* delivered, in order, while it is kept
    \* the Planimation plugin (src/unnamed/part_000)
    plugin                        \* its search tree, its planimation object, and the
                                  \* calls the last click made

ctl == <<webViewPanel, stateChangedWhileViewHidden, search, subscriptions,
         stateLogFile, stateLogEditor, stateLogLineCache, debuggerState, port, tasks>>
env == <<nStates, listeners, logLines, docClosed, stateLogPattern, sendFails>>
eff == <<lastOp, sent, fx, revealed>>
vars == <<ctl, env, eff, http, history, plugin>>
obs == <<search, subscriptions, listeners>>
dbg == <<debuggerState, port>>

\* ------------------------------------------------------------ helpers
RemoveAt(s, i) == SubSeq(s, 1, i - 1) \o SubSeq(s, i + 1, Len(s))

ReplaceAt(s, i, x) == [s EXCEPT ![i] = x]

\* the planner's own identifier of state id
OrigIdOf(id) == ((id - 1) % Cardinality(OrigIds)) + 1

\* StateResolver.getState: the state, or "undefined" (0) when the id is unknown
getState(src, stateId) ==
    IF src # NoSearch /\ stateId >= 1 /\ stateId <= nStates[src]
    THEN [src |-> src, id |-> stateId, origId |-> OrigIdOf(stateId)]
    ELSE [src |-> NoSearch, id |-> 0, origId |-> 0]   \* undefined

\* StateResolver.getStates: the snapshot of all states of the source
getStates(src) ==
    IF src = NoSearch THEN << >>
    ELSE [i \in 1..nStates[src] |-> getState(src, i)]

\* Uri.fsPath
fsPath(uri) == IF uri = "uri1" THEN "/logs/plan1.log" ELSE "/logs/plan2.log"

EmptyCache == [o \in OrigIds |-> NoLine]

\* the part of the state a handler works on, with the effects of the step so far
Here ==
    [panel |-> webViewPanel, flag |-> stateChangedWhileViewHidden,
     file |-> stateLogFile, editor |-> stateLogEditor, closed |-> docClosed,
     cache |-> stateLogLineCache, tasks |-> tasks,
     sent |-> << >>, fx |-> {}, revealed |-> NoLine,
     exc |-> FALSE]                \* an exception is propagating

\* ------------------------------------------------------------ history
NoHistory == [on |-> FALSE, events |-> << >>]

Event(ev, id, info) == [ev |-> ev, id |-> id, info |-> info]

\* the plans and images among the commands handed to the webview
Delivered(msgs) ==
    LET shown == SelectSeq(msgs, LAMBDA m : m.command \in {"showStatePlan", "getPNGOfNode"})
    IN  [k \in 1..Len(shown) |->
            IF shown[k].command = "showStatePlan"
            THEN Event("showStatePlan", shown[k].state.html.id, "")
            ELSE Event("getPNGOfNode", 0, shown[k].state.png)]

\* the history after a step op that handed msgs to the webview; it keeps the
\* first MaxHistory events
Recorded(h, op, msgs) ==
    LET selected == IF op.op = "handleMessage" /\ op.a = "stateSelected"
                    THEN <<Event("stateSelected", op.n, "")>>
                    ELSE << >>
        all == h.events \o selected \o Delivered(msgs)
    IN  IF h.on
        THEN [h EXCEPT !.events = SubSeq(all, 1, IF Len(all) < MaxHistory
                                                 THEN Len(all) ELSE MaxHistory)]
        ELSE h

Commit(c, op) ==
    /\ history' = Recorded(history, op, c.sent)
    /\ webViewPanel' = c.panel
    /\ stateChangedWhileViewHidden' = c.flag
    /\ stateLogFile' = c.file
    /\ stateLogEditor' = c.editor
    /\ docClosed' = c.closed
    /\ stateLogLineCache' = c.cache
    /\ tasks' = c.tasks
    /\ sent' = c.sent
    \* "thrown": the handler ended by throwing (an async one: its promise rejects)
    /\ fx' = IF c.exc THEN c.fx \cup {"thrown"} ELSE c.fx
    /\ revealed' = c.revealed
    /\ lastOp' = op

Msg(command, state) == [command |-> command, state |-> state]

NoState == [src |-> NoSearch, id |-> 0, origId |-> 0]

Task(kind, file, state, info) ==
    [kind |-> kind, file |-> file, state |-> state, info |-> info]

Op(name, a, n) == [op |-> name, a |-> a, n |-> n]

\* -------------------------------------------------------- postMessage
\* faulty variant: a hidden panel is only marked, the send is skipped
postMessage_SkipWhenHidden(c, message) ==
    IF c.panel = "visible" THEN [c EXCEPT !.sent = Append(@, message)]
    ELSE IF c.panel = "hidden" THEN [c EXCEPT !.flag = TRUE]
    ELSE c

\* sent records the message handed to webview.postMessage, also when that throws
postMessage(c, message) ==
    IF c.panel # "none"
    THEN IF sendFails
         THEN [c EXCEPT !.sent = Append(@, message), !.exc = TRUE]
         ELSE [c EXCEPT !.sent = Append(@, message),
                        !.flag = IF c.panel = "hidden" THEN TRUE ELSE @]
    ELSE c

\* new Promise(() => ...).catch(reason => console.log(reason)): what the
\* executor throws rejects the promise and is logged
caughtAndLogged(c) ==
    IF c.exc THEN [c EXCEPT !.exc = FALSE, !.fx = @ \cup {"console.log"}] ELSE c

showDebuggerState(c, on, p) ==
    postMessage(c, Msg("debuggerState",
        [running |-> IF on = "true" THEN "on" ELSE "off", port |-> p]))

showAllStates(c) ==
    caughtAndLogged(postMessage(c, Msg("showAllStates", getStates(search))))

\* ------------------------------------------------------- relay handlers
\* faulty variant: the send is not wrapped, what it throws reaches the source
addState_Uncaught(c, newState) == postMessage(c, Msg("stateAdded", newState))

addState(c, newState) == caughtAndLogged(postMessage(c, Msg("stateAdded", newState)))

\* faulty variant: an update is relayed as a new state
update_AsStateAdded(c, state) == caughtAndLogged(postMessage(c, Msg("stateAdded", state)))

update(c, state) == caughtAndLogged(postMessage(c, Msg("stateUpdated", state)))

displayPlan(c, planStates) ==
    caughtAndLogged(postMessage(c, Msg("showPlan", planStates)))

\* showStatePlan up to its await of generateHtml
showStatePlan(c, stateId) ==
    LET state == getState(search, stateId) IN
    IF search = NoSearch THEN c
    ELSE IF state.id = 0 THEN c
    ELSE IF c.panel = "none"
         \* this.webViewPanel.webview of undefined: the promise rejects, nobody awaits it
         THEN [c EXCEPT !.fx = @ \cup {"rejected"}]
         ELSE [c EXCEPT !.tasks = Append(@, Task("plan", NoFile, state, ""))]

displayBetterState(c, state) == showStatePlan(c, state.id)

\* faulty variant: no request is made while a plan report or a scroll is
\* suspended
sendRequestToPlanimationApi_WhenIdle(c, subGoal) ==
    IF \E i \in 1..Len(c.tasks) : c.tasks[i].kind \in {"plan", "reopen"}
    THEN c
    ELSE [c EXCEPT !.tasks = Append(@, Task("fetch", NoFile, NoState, subGoal))]

\* sendRequestToPlanimationApi up to the fetch
sendRequestToPlanimationApi(c, subGoal) ==
    [c EXCEPT !.tasks = Append(@, Task("fetch", NoFile, NoState, subGoal))]

\* stateLogLineCache.clear(); the tag records that entries were dropped
cacheClear(c) ==
    [c EXCEPT !.cache = EmptyCache,
              !.fx = IF c.cache # EmptyCache THEN @ \cup {"cache.dropped"} ELSE @]

\* the statements after a call are skipped when the call threw
afterPost(c, rest) == IF c.exc THEN c ELSE rest

\* faulty variant: the correlation cache survives the reset
clear_CacheKept(c) == postMessage(c, Msg("clear", "n/a"))

clear(c) ==
    LET c1 == postMessage(c, Msg("clear", "n/a")) IN afterPost(c1, cacheClear(c1))

\* ------------------------------------------------------------ state log
\* toggleStateLog up to its await of showOpenDialog
toggleStateLog(c) ==
    IF c.file # NoFile
    THEN postMessage(c, Msg("stateLog", "null"))
    ELSE [c EXCEPT !.tasks = Append(@, Task("picker", NoFile, NoState, "")),
                   !.fx = @ \cup {"showOpenDialog"}]

\* faulty variant: the empty pattern yields the id of the line as first group
patternMatch_GroupOfEmpty(text, pattern) ==
    IF text = 0
    THEN [matched |-> pattern = PatternDefault, group1 |-> 0]
    ELSE [matched |-> TRUE, group1 |-> text]

\* logLine.text.match(new RegExp(pattern)): matched, and the first capture
\* group (0: undefined)
patternMatch(text, pattern) ==
    IF pattern = PatternDefault
    THEN [matched |-> TRUE, group1 |-> 0]
    ELSE IF text = 0
         THEN [matched |-> FALSE, group1 |-> 0]
         ELSE [matched |-> TRUE, group1 |-> text]

\* faulty variant: the loop does not break, the last matching line wins
RECURSIVE scanFrom_LastMatch(_, _, _, _)
scanFrom_LastMatch(lines, pattern, origId, lineIdx) ==
    IF lineIdx >= Len(lines) THEN NoLine
    ELSE LET m == patternMatch(lines[lineIdx + 1], pattern)
             later == scanFrom_LastMatch(lines, pattern, origId, lineIdx + 1)
         IN  IF later # NoLine THEN later
             ELSE IF m.matched /\ m.group1 = origId THEN lineIdx
             ELSE NoLine

\* the for loop of scrollStateLog from lineIdx on: the first line index whose
\* first capture group is origId, or NoLine
RECURSIVE scanFrom(_, _, _, _)
scanFrom(lines, pattern, origId, lineIdx) ==
    IF lineIdx >= Len(lines) THEN NoLine
    ELSE LET m == patternMatch(lines[lineIdx + 1], pattern) IN
         IF m.matched /\ m.group1 = origId
         THEN lineIdx
         ELSE scanFrom(lines, pattern, origId, lineIdx + 1)

\* faulty variant: the index is memoized after the loop, also when no line matched
scrollCached_MemoizedAfterLoop(c, state) ==
    LET cachedLineId == c.cache[state.origId] IN
    IF cachedLineId # NoLine
    THEN IF cachedLineId # 0
         THEN [c EXCEPT !.revealed = cachedLineId]
         ELSE c
    ELSE LET lineIdx == scanFrom(logLines[c.editor], stateLogPattern, state.origId, 0) IN
         IF lineIdx # NoLine
         THEN [c EXCEPT !.revealed = lineIdx,
                        !.cache[state.origId] = lineIdx,
                        !.fx = @ \cup {"scan"}]
         ELSE [c EXCEPT !.cache[state.origId] = Len(logLines[c.editor]),
                        !.fx = @ \cup {"scan"}]

\* faulty variant: a cache hit scans again and memoizes the last matching line
scrollCached_Rememoized(c, state) ==
    LET lineIdx == scanFrom_LastMatch(logLines[c.editor], stateLogPattern, state.origId, 0) IN
    IF lineIdx # NoLine
    THEN [c EXCEPT !.revealed = lineIdx,
                   !.cache[state.origId] = lineIdx,
                   !.fx = @ \cup {"scan"}]
    ELSE [c EXCEPT !.fx = @ \cup {"scan"}]

\* scrollStateLog from the cache check on
scrollCached(c, state) ==
    LET cachedLineId == c.cache[state.origId] IN
    IF cachedLineId # NoLine
    THEN IF cachedLineId # 0       \* if (cachedLineId)
         THEN [c EXCEPT !.revealed = cachedLineId]
         ELSE c
    ELSE LET lineIdx == scanFrom(logLines[c.editor], stateLogPattern, state.origId, 0) IN
         IF lineIdx # NoLine
         THEN [c EXCEPT !.revealed = lineIdx,
                        !.cache[state.origId] = lineIdx,
                        !.fx = @ \cup {"scan"}]
         ELSE [c EXCEPT !.fx = @ \cup {"scan"}]

\* faulty variant: the check of the resolved state is missing
scrollStateLog_StateNotChecked(c, stateId) ==
    LET known == getState(search, stateId)
        state == IF known.id = 0
                 THEN [src |-> search, id |-> stateId, origId |-> OrigIdOf(stateId)]
                 ELSE known
    IN  IF c.file = NoFile \/ c.editor = NoFile \/ search = NoSearch THEN c
        ELSE IF c.closed
             THEN [c EXCEPT !.tasks = Append(@, Task("reopen", c.editor, state, "")),
                            !.fx = @ \cup {"showTextDocument"}]
             ELSE scrollCached(c, state)

\* scrollStateLog up to its await of showTextDocument
scrollStateLog(c, stateId) ==
    LET state == getState(search, stateId) IN
    IF c.file = NoFile \/ c.editor = NoFile \/ search = NoSearch THEN c
    ELSE IF state.id = 0 THEN c
    ELSE IF c.closed
         THEN [c EXCEPT !.tasks = Append(@, Task("reopen", c.editor, state, "")),
                        !.fx = @ \cup {"showTextDocument"}]
         ELSE scrollCached(c, state)

\* ------------------------------------------------------------- observe
\* faulty variant: the subscriptions held are dropped without being disposed
observe_NoDispose(source) ==
    [search |-> source,
     subscriptions |-> {<<source, k>> : k \in Kinds},
     listeners |-> listeners \cup {<<source, k>> : k \in Kinds}]

\* dispose the subscriptions held, then subscribe to the four events of source
observe(source) ==
    [search |-> source,
     subscriptions |-> {<<source, k>> : k \in Kinds},
     listeners |-> (listeners \ subscriptions) \cup {<<source, k>> : k \in Kinds}]

\* ---------------------------------------------------- changedViewState
\* faulty variant: all states are sent again whether or not the flag is set
changedViewState_AlwaysResent(c, visible) ==
    IF visible
    THEN LET c1 == showDebuggerState(c, debuggerState, port)
             c2 == showAllStates(c1)
         IN  afterPost(c1, [c2 EXCEPT !.flag = FALSE])
    ELSE c

\* faulty variant: the pending flag is not reset after the resend
changedViewState_FlagKept(c, visible) ==
    IF visible
    THEN LET c1 == showDebuggerState(c, debuggerState, port)
         IN  IF c1.flag THEN showAllStates(c1) ELSE c1
    ELSE c

\* c.panel already holds the panel's new visibility
changedViewState(c, visible) ==
    IF visible
    THEN LET c1 == showDebuggerState(c, debuggerState, port)
             c2 == IF c1.flag THEN showAllStates(c1) ELSE c1
         IN  afterPost(c1, [c2 EXCEPT !.flag = FALSE])
    ELSE c

\* -------------------------------------------------------- handleMessage
Message(command, stateId, stateInfo) ==
    [command |-> command, stateId |-> stateId, stateInfo |-> stateInfo]

\* faulty variant: startDebugger leaves the correlation cache as it is
handleMessage_CacheKept(c, message) ==
    CASE message.command = "onload" -> showDebuggerState(c, debuggerState, port)
      [] message.command = "stateSelected" ->
            sendRequestToPlanimationApi(
                scrollStateLog(showStatePlan(c, message.stateId), message.stateId),
                message.stateInfo)
      [] message.command = "startDebugger" ->
            [c EXCEPT !.fx = @ \cup {"pddl.searchDebugger.start"}]
      [] message.command = "stopDebugger" ->
            [c EXCEPT !.fx = @ \cup {"pddl.searchDebugger.stop"}]
      [] message.command = "reset" ->
            [c EXCEPT !.fx = @ \cup {"pddl.searchDebugger.reset"}]
      [] message.command = "toggleStateLog" -> toggleStateLog(c)
      [] OTHER -> [c EXCEPT !.fx = @ \cup {"console.warn"}]

\* faulty variant: 'reset' also empties the cache and drops the log binding
handleMessage_ResetUnbinds(c, message) ==
    CASE message.command = "onload" -> showDebuggerState(c, debuggerState, port)
      [] message.command = "stateSelected" ->
            sendRequestToPlanimationApi(
                scrollStateLog(showStatePlan(c, message.stateId), message.stateId),
                message.stateInfo)
      [] message.command = "startDebugger" ->
            cacheClear([c EXCEPT !.fx = @ \cup {"pddl.searchDebugger.start"}])
      [] message.command = "stopDebugger" ->
            [c EXCEPT !.fx = @ \cup {"pddl.searchDebugger.stop"}]
      [] message.command = "reset" ->
            cacheClear([c EXCEPT !.fx = @ \cup {"pddl.searchDebugger.reset"},
                                 !.file = NoFile, !.editor = NoFile])
      [] message.command = "toggleStateLog" -> toggleStateLog(c)
      [] OTHER -> [c EXCEPT !.fx = @ \cup {"console.warn"}]

\* faulty variant: the default label shares the body of 'toggleStateLog'
handleMessage_DefaultToggles(c, message) ==
    CASE message.command = "onload" -> showDebuggerState(c, debuggerState, port)
      [] message.command = "stateSelected" ->
            sendRequestToPlanimationApi(
                scrollStateLog(showStatePlan(c, message.stateId), message.stateId),
                message.stateInfo)
      [] message.command = "startDebugger" ->
            cacheClear([c EXCEPT !.fx = @ \cup {"pddl.searchDebugger.start"}])
      [] message.command = "stopDebugger" ->
            [c EXCEPT !.fx = @ \cup {"pddl.searchDebugger.stop"}]
      [] message.command = "reset" ->
            [c EXCEPT !.fx = @ \cup {"pddl.searchDebugger.reset"}]
      [] OTHER -> toggleStateLog(c)

handleMessage(c, message) ==
    CASE message.command = "onload" -> showDebuggerState(c, debuggerState, port)
      [] message.command = "stateSelected" ->
            sendRequestToPlanimationApi(
                scrollStateLog(showStatePlan(c, message.stateId), message.stateId),
                message.stateInfo)
      [] message.command = "startDebugger" ->
            cacheClear([c EXCEPT !.fx = @ \cup {"pddl.searchDebugger.start"}])
      [] message.command = "stopDebugger" ->
            [c EXCEPT !.fx = @ \cup {"pddl.searchDebugger.stop"}]
      [] message.command = "reset" ->
            [c EXCEPT !.fx = @ \cup {"pddl.searchDebugger.reset"}]
      [] message.command = "toggleStateLog" -> toggleStateLog(c)
      [] OTHER -> [c EXCEPT !.fx = @ \cup {"console.warn"}]

\* --------------------------------------------------------- HTTP helpers
Helpers == {"getJson", "getText", "postJson"}
NoRequest == [fn |-> "none", phase |-> "idle"]
NoError == "null"
Errors == {NoError, "ECONNRESET"}
StatusCodes == {100, 199, 200, 201, 204, 205, 301, 404, 500}
\* httpResponse as the callback receives it; statusCode 0: no response object
Responses == {[present |-> FALSE, statusCode |-> 0]}
                \cup {[present |-> TRUE, statusCode |-> n] : n \in StatusCodes}
Bodies == {"body1", "body2"}

resolve(value) == [fn |-> "resolve", arg |-> value]
reject(reason) == [fn |-> "reject", arg |-> reason]
\* "HTTP status code " + httpResponse.statusCode
statusMessage(n) == <<"HTTP status code ", n>>

\* the callback of getJson: the calls of resolve and reject it makes, in order
getJson(error, httpResponse, body) ==
    IF error # NoError
    THEN <<reject(error)>>
    ELSE IF httpResponse.present /\ httpResponse.statusCode # 200
         THEN <<reject(statusMessage(httpResponse.statusCode))>>
         ELSE <<resolve(body)>>

\* the callback of getText
getText(error, httpResponse, body) ==
    IF error # NoError
    THEN <<reject(error)>>
    ELSE IF httpResponse.present /\ httpResponse.statusCode # 200
         THEN <<reject(statusMessage(httpResponse.statusCode))>>
         ELSE <<resolve(body)>>

\* the callback of postJson
postJson(error, httpResponse, body) ==
    IF error # NoError
    THEN <<reject(error)>>
    ELSE IF httpResponse.present /\ httpResponse.statusCode > 204
         THEN <<reject(statusMessage(httpResponse.statusCode))>>
         ELSE <<resolve(body)>>

\* a promise settles with the first call of resolve or reject, later calls
\* are ignored
settled(calls) == IF calls = << >> THEN [fn |-> "pending", arg |-> ""] ELSE calls[1]

\* -------------------------------------------------- Planimation plugin
\* a string is the sequence of its characters
Separators == {"(", ")", ",", " "}

\* the text of an action as the tree stores it in a node's precondition
Preconditions ==
    { <<"m", "(", "a", ",", "b", ")">>,
      <<" ", "p", "(", " ", "a", " ", ")">>,
      <<"s", " ", " ", "a", ",", " ", "b">> }

\* the root node of treeData; its precondition is null
RootNode == [name |-> "root", parent |-> 0, precondition |-> <<"null">>]

\* the parents of the nodes 2..n of a tree: a node is added below an older one
Parents(n) == {par \in [2..n -> 1..n] : \A k \in 2..n : par[k] < k}

\* the search trees of n nodes, node 1 the root
TreesOf(n) ==
    {[k \in 1..n |-> IF k = 1 THEN RootNode
                     ELSE [name |-> "State", parent |-> par[k], precondition |-> pre[k]]] :
        par \in Parents(n), pre \in [2..n -> Preconditions]}

Trees == UNION {TreesOf(n) : n \in 1..MaxNodes}

\* s.replace(/[(),]/g, ' ')
replaceBrackets(s) ==
    [k \in 1..Len(s) |-> IF s[k] \in {"(", ")", ","} THEN " " ELSE s[k]]

\* s.replace(/ +(?= )/g, '') from position k on: a space that a space follows
\* is removed
RECURSIVE dropRepeatedSpaces(_, _)
dropRepeatedSpaces(s, k) ==
    IF k > Len(s) THEN << >>
    ELSE IF s[k] = " " /\ k < Len(s) /\ s[k + 1] = " "
         THEN dropRepeatedSpaces(s, k + 1)
         ELSE <<s[k]>> \o dropRepeatedSpaces(s, k + 1)

\* s.trim()
RECURSIVE trim(_)
trim(s) ==
    IF s = << >> THEN s
    ELSE IF s[1] = " " THEN trim(Tail(s))
    ELSE IF s[Len(s)] = " " THEN trim(SubSeq(s, 1, Len(s) - 1))
    ELSE s

\* faulty variant: the action of the node is put before the plan of its parent
RECURSIVE getNodeActions_NodeFirst(_, _)
getNodeActions_NodeFirst(tree, d) ==
    IF tree[d].name = "root" THEN << >>
    ELSE <<"(">>
         \o trim(dropRepeatedSpaces(replaceBrackets(tree[d].precondition), 1))
         \o <<")">>
         \o getNodeActions_NodeFirst(tree, tree[d].parent)

\* getNodeActions(d): the plan that leads to node d of the tree
RECURSIVE getNodeActions(_, _)
getNodeActions(tree, d) ==
    IF tree[d].name = "root" THEN << >>
    ELSE getNodeActions(tree, tree[d].parent)
         \o <<"(">>
         \o trim(dropRepeatedSpaces(replaceBrackets(tree[d].precondition), 1))
         \o <<")">>

\* click(d): the calls of planimation.updateWithPlan it makes
click(tree, planimation, d) ==
    LET plan == getNodeActions(tree, d)
        nodeName == tree[d].name
    IN  IF planimation # "undefined"
        THEN <<[plan |-> plan, isRoot |-> nodeName = "root"]>>
        ELSE << >>

\* window.setTimeout returns the id of the timer it starts; the ids a call
\* chain of initialisePlanimation gets are told apart up to TimerIds
TimerIds == 2

\* a call chain of initialisePlanimation, from loadStatespacePlanimation, before
\* its first call: pc is what the chain waits for, timeouts the timers it set
NewChain == [pc |-> "called", timeouts |-> 0]

\* faulty variant: the library is required without a look at the element
initialisePlanimation_NoElementCheck(element, chain) ==
    [chain EXCEPT !.pc = "require"]

\* initialisePlanimation(domainPDDL, problemPDDL, animationPDDL): with the element
\* 'planimation' in the document the library is required, else a timer is set
\* that calls the function again
initialisePlanimation(element, chain) ==
    IF element
    THEN [chain EXCEPT !.pc = "require"]
    ELSE [chain EXCEPT !.pc = "timer", !.timeouts = (@ + 1) % TimerIds]

\* the plugin before a domain and a problem are loaded: element tells whether
\* the document holds the element 'planimation', grounding counts the pending
\* calls of ground, chains are the call chains of initialisePlanimation and
\* views counts the views appended to the element
NoPlugin == [treeData |-> <<RootNode>>, planimation |-> "undefined",
             clicked |-> 0, updateWithPlan |-> << >>,
             element |-> FALSE, grounding |-> 0, chains |-> << >>, views |-> 0]

\* ---------------------------------------------------------------- Init
\* the view after construction, under the configured pattern
InitWith(pattern) ==
    /\ webViewPanel = "none"
    /\ stateChangedWhileViewHidden = FALSE
    /\ search = NoSearch
    /\ subscriptions = {}
    /\ stateLogFile = NoFile
    /\ stateLogEditor = NoFile
    /\ stateLogLineCache = EmptyCache
    /\ debuggerState = "undefined"
    /\ port = 0
    /\ tasks = << >>
    /\ nStates = [s \in Sources |-> 0]
    /\ listeners = {}
    /\ logLines = [f \in Files |-> << >>]
    /\ docClosed = FALSE
    /\ stateLogPattern = pattern
    /\ sendFails = FALSE
    /\ lastOp = Op("init", "", 0)
    /\ sent = << >>
    /\ fx = {}
    /\ revealed = NoLine
    /\ http = NoRequest

Init == InitWith(PatternId) /\ history = NoHistory /\ plugin = NoPlugin

\* a step of the view: c is the state the handler leaves; the bound stops the
\* growth of the suspended continuations only
Step(c, op) ==
    /\ Len(c.tasks) <= (IF Len(tasks) > MaxTasks THEN Len(tasks) ELSE MaxTasks)
    /\ Commit(c, op)

\* ------------------------------------------------- the view's public API
Observe(source) ==
    LET o == observe(source) IN
    /\ search' = o.search
    /\ subscriptions' = o.subscriptions
    /\ listeners' = o.listeners
    /\ Step(Here, Op("observe", source, 0))
    /\ UNCHANGED <<dbg, nStates, logLines, stateLogPattern, sendFails, http, plugin>>

SetDebuggerState ==
    \E on \in {"true", "false"}, p \in Ports :
        /\ debuggerState' = on
        /\ port' = p
        /\ Step(showDebuggerState(Here, on, p), Op("setDebuggerState", on, p))
        /\ UNCHANGED <<obs, nStates, logLines, stateLogPattern, sendFails, http, plugin>>

Clear ==
    /\ Step(clear(Here), Op("clear", "", 0))
    /\ UNCHANGED <<obs, dbg, nStates, logLines, stateLogPattern, sendFails, http, plugin>>

\* createDebugView up to its await of getHtml: the panel exists, its
\* listeners are not registered yet
createDebugView(c) ==
    [c EXCEPT !.panel = "visible",
              !.tasks = Append(@, Task("create", NoFile, NoState, ""))]

\* showDebugView: reveal the panel, or createDebugView
ShowDebugView ==
    /\ IF webViewPanel # "none"
       THEN Step(Here, Op("showDebugView", "reveal", 0))
       ELSE Step(createDebugView(Here), Op("showDebugView", "create", 0))
    /\ UNCHANGED <<obs, dbg, nStates, logLines, stateLogPattern, sendFails, http, plugin>>

\* createDebugView after getHtml: the html is set and the listeners of the
\* panel (onDidDispose, onDidReceiveMessage, onDidChangeViewState) registered
ViewCreated ==
    \E i \in 1..Len(tasks) :
        /\ tasks[i].kind = "create"
        /\ Step([Here EXCEPT !.tasks = RemoveAt(@, i), !.fx = @ \cup {"html"}],
                Op("viewCreated", "", i))
        /\ UNCHANGED <<obs, dbg, nStates, logLines, stateLogPattern, sendFails, http, plugin>>

\* a direct call of the public method showAllStates
ShowAllStates ==
    /\ Step(showAllStates(Here), Op("showAllStates", "", 0))
    /\ UNCHANGED <<obs, dbg, nStates, logLines, stateLogPattern, sendFails, http, plugin>>

\* a direct call of the public method scrollStateLog
ScrollStateLog ==
    \E stateId \in 0..MaxStates :
        /\ Step(scrollStateLog(Here, stateId), Op("scrollStateLog", "", stateId))
        /\ UNCHANGED <<obs, dbg, nStates, logLines, stateLogPattern, sendFails, http, plugin>>

\* ---------------------------------------------------- the panel's events
\* the panel exists and createDebugView has registered its listeners
PanelListening ==
    /\ webViewPanel # "none"
    /\ \A i \in 1..Len(tasks) : tasks[i].kind # "create"

\* the panel is hidden or shown while createDebugView still awaits getHtml:
\* no listener hears of it
ViewStateUnobserved ==
    /\ webViewPanel # "none"
    /\ ~PanelListening
    /\ Step([Here EXCEPT !.panel = IF @ = "visible" THEN "hidden" ELSE "visible"],
            Op("viewStateUnobserved", "", 0))
    /\ UNCHANGED <<obs, dbg, nStates, logLines, stateLogPattern, sendFails, http, plugin>>

\* onDidDispose
PanelDisposed ==
    /\ PanelListening
    /\ Step([Here EXCEPT !.panel = "none"], Op("onDidDispose", "", 0))
    /\ UNCHANGED <<obs, dbg, nStates, logLines, stateLogPattern, sendFails, http, plugin>>

\* onDidChangeViewState: the panel reports its (possibly unchanged) visibility
ChangedViewState ==
    \E visible \in BOOLEAN :
        /\ PanelListening
        /\ Step(changedViewState(
                    [Here EXCEPT !.panel = IF visible THEN "visible" ELSE "hidden"],
                    visible),
                Op("changedViewState", IF visible THEN "visible" ELSE "hidden", 0))
        /\ UNCHANGED <<obs, dbg, nStates, logLines, stateLogPattern, sendFails, http, plugin>>

\* onDidReceiveMessage: the webview of the existing panel sends a message
Receive(message) ==
    /\ PanelListening
    /\ Step(handleMessage(Here, message),
            Op("handleMessage", message.command, message.stateId))
    /\ UNCHANGED <<obs, dbg, nStates, logLines, stateLogPattern, sendFails, http, plugin>>

Onload == Receive(Message("onload", 0, ""))

StateSelected ==
    \E stateId \in 0..MaxStates, stateInfo \in SubGoals :
        Receive(Message("stateSelected", stateId, stateInfo))

StartDebugger == Receive(Message("startDebugger", 0, ""))

StopDebugger == Receive(Message("stopDebugger", 0, ""))

Reset == Receive(Message("reset", 0, ""))

ToggleStateLog == Receive(Message("toggleStateLog", 0, ""))

\* the sub-goal text the surface sends with the selection of a state
stateInfoOf(stateId) == IF stateId = 1 THEN "g1" ELSE "g2"

\* the surface selects a known state while earlier selections may still be
\* waiting for their plan report and their image
SelectState ==
    \E stateId \in 1..MaxStates :
        LET message == Message("stateSelected", stateId, stateInfoOf(stateId))
            c == handleMessage(Here, message)
        IN  /\ PanelListening
            /\ stateId <= nStates["s1"]
            /\ Len(c.tasks) <= MaxOverlap
            /\ Commit(c, Op("handleMessage", message.command, message.stateId))
            /\ UNCHANGED <<obs, dbg, nStates, logLines, stateLogPattern, sendFails, http, plugin>>

\* commands the switch of handleMessage has no case for (the second: a
\* message without a command)
UnknownCommands == {"bogus", "undefined"}

UnexpectedCommand ==
    \E command \in UnknownCommands : Receive(Message(command, 0, ""))

\* ------------------------------------------- the search sources' events
\* a listener of the view is registered for the event: its handler runs
Relay(source, kind, c) ==
    IF <<source, kind>> \in listeners
    THEN [c EXCEPT !.fx = @ \cup {"handler"}]
    ELSE Here

StatesEmitted == nStates["s1"] + nStates["s2"]

StateAdded(source) ==
    LET id == nStates[source] + 1
        newState == [src |-> source, id |-> id, origId |-> OrigIdOf(id)]
    IN  /\ StatesEmitted < MaxStates
        /\ nStates' = [nStates EXCEPT ![source] = id]
        /\ Step(Relay(source, "stateAdded", addState(Here, newState)),
                Op("stateAdded", source, id))
        /\ UNCHANGED <<obs, dbg, logLines, stateLogPattern, sendFails, http, plugin>>

StateUpdated(source) ==
    \E id \in 1..nStates[source] :
        /\ Step(Relay(source, "stateUpdated", update(Here, getState(source, id))),
                Op("stateUpdated", source, id))
        /\ UNCHANGED <<obs, dbg, nStates, logLines, stateLogPattern, sendFails, http, plugin>>

BetterState(source) ==
    \E id \in 1..nStates[source] :
        /\ Step(Relay(source, "betterState",
                      displayBetterState(Here, getState(source, id))),
                Op("betterState", source, id))
        /\ UNCHANGED <<obs, dbg, nStates, logLines, stateLogPattern, sendFails, http, plugin>>

\* the plans a source may report: its states from the last one back to state k
Plans(source) ==
    {[i \in 1..(nStates[source] - k + 1) |-> getState(source, nStates[source] + 1 - i)] :
        k \in 1..nStates[source]}

PlanFound(source) ==
    \E planStates \in Plans(source) :
        /\ Step(Relay(source, "planFound", displayPlan(Here, planStates)),
                Op("planFound", source, Len(planStates)))
        /\ UNCHANGED <<obs, dbg, nStates, logLines, stateLogPattern, sendFails, http, plugin>>

\* ------------------------------------------ resumptions after an await
\* toggleStateLog after showOpenDialog: nothing chosen, or one file
togglePicked(c, i, selectedUri) ==
    IF selectedUri = NoFile
    THEN [c EXCEPT !.tasks = RemoveAt(@, i)]
    ELSE [c EXCEPT !.file = selectedUri,
                   !.tasks = ReplaceAt(@, i, Task("open", selectedUri, NoState, ""))]

PickerReturned(files) ==
    \E i \in 1..Len(tasks) : \E selectedUri \in files \cup {NoFile} :
        /\ tasks[i].kind = "picker"
        /\ Step(togglePicked(Here, i, selectedUri), Op("pickerReturned", selectedUri, i))
        /\ UNCHANGED <<obs, dbg, nStates, logLines, stateLogPattern, sendFails, http, plugin>>

\* faulty variant: the command is posted, the editor is not stored
toggleOpened_EditorNotStored(c, i) ==
    postMessage([c EXCEPT !.tasks = RemoveAt(@, i)],
                Msg("stateLog", fsPath(c.file)))

\* toggleStateLog after openTextDocument and showTextDocument
toggleOpened(c, i) ==
    postMessage([c EXCEPT !.editor = c.tasks[i].file,
                          !.closed = FALSE,
                          !.tasks = RemoveAt(@, i)],
                Msg("stateLog", fsPath(c.file)))

OpenCompleted ==
    \E i \in 1..Len(tasks) :
        /\ tasks[i].kind = "open"
        /\ Step(toggleOpened(Here, i), Op("openCompleted", tasks[i].file, i))
        /\ UNCHANGED <<obs, dbg, nStates, logLines, stateLogPattern, sendFails, http, plugin>>

\* openTextDocument or showTextDocument rejects: toggleStateLog's promise rejects
OpenFailed ==
    \E i \in 1..Len(tasks) :
        /\ tasks[i].kind = "open"
        /\ Step([Here EXCEPT !.tasks = RemoveAt(@, i), !.fx = @ \cup {"rejected"}],
                Op("openFailed", tasks[i].file, i))
        /\ UNCHANGED <<obs, dbg, nStates, logLines, stateLogPattern, sendFails, http, plugin>>

\* faulty variant: the editor returned by showTextDocument is not stored
scrollReopened_EditorNotReplaced(c, i) ==
    scrollCached([c EXCEPT !.tasks = RemoveAt(@, i)], c.tasks[i].state)

\* scrollStateLog after the document was shown again
scrollReopened(c, i) ==
    scrollCached([c EXCEPT !.editor = c.tasks[i].file,
                           !.closed = FALSE,
                           !.tasks = RemoveAt(@, i)],
                 c.tasks[i].state)

ReopenCompleted ==
    \E i \in 1..Len(tasks) :
        /\ tasks[i].kind = "reopen"
        /\ Step(scrollReopened(Here, i), Op("reopenCompleted", tasks[i].file, i))
        /\ UNCHANGED <<obs, dbg, nStates, logLines, stateLogPattern, sendFails, http, plugin>>

\* faulty variant: a report is posted only when no earlier report is awaited
planGenerated_InSelectionOrder(c, i) ==
    IF \E j \in 1..(i - 1) : c.tasks[j].kind = "plan"
    THEN [c EXCEPT !.tasks = RemoveAt(@, i)]
    ELSE postMessage([c EXCEPT !.tasks = RemoveAt(@, i)],
                     Msg("showStatePlan", [html |-> c.tasks[i].state]))

\* showTextDocument rejects: the promise of scrollStateLog rejects, nobody
\* awaits it; the closed editor stays bound
ReopenFailed ==
    \E i \in 1..Len(tasks) :
        /\ tasks[i].kind = "reopen"
        /\ Step([Here EXCEPT !.tasks = RemoveAt(@, i), !.fx = @ \cup {"rejected"}],
                Op("reopenFailed", tasks[i].file, i))
        /\ UNCHANGED <<obs, dbg, nStates, logLines, stateLogPattern, sendFails, http, plugin>>

\* showStatePlan after generateHtml
planGenerated(c, i) ==
    postMessage([c EXCEPT !.tasks = RemoveAt(@, i)],
                Msg("showStatePlan", [html |-> c.tasks[i].state]))

PlanGenerated ==
    \E i \in 1..Len(tasks) :
        /\ tasks[i].kind = "plan"
        /\ Step(planGenerated(Here, i), Op("planGenerated", "", i))
        /\ UNCHANGED <<obs, dbg, nStates, logLines, stateLogPattern, sendFails, http, plugin>>

\* generateHtml rejects: the promise of showStatePlan rejects; its callers
\* (handleMessage, displayBetterState) did not await it
planFailed(c, i) ==
    [c EXCEPT !.tasks = RemoveAt(@, i), !.fx = @ \cup {"rejected"}]

PlanFailed ==
    \E i \in 1..Len(tasks) :
        /\ tasks[i].kind = "plan"
        /\ Step(planFailed(Here, i), Op("planFailed", "", i))
        /\ UNCHANGED <<obs, dbg, nStates, logLines, stateLogPattern, sendFails, http, plugin>>

\* faulty variant: the image of a request is dropped when a later request
\* is pending or the image of a later selection was delivered
fetchResponded_LatestOnly(c, i) ==
    IF \/ \E j \in (i + 1)..Len(c.tasks) : c.tasks[j].kind = "fetch"
       \/ \E k \in 1..Len(history.events) :
             /\ history.events[k].ev = "getPNGOfNode"
             /\ history.events[k].info # c.tasks[i].info
    THEN [c EXCEPT !.tasks = RemoveAt(@, i)]
    ELSE caughtAndLogged(
             postMessage([c EXCEPT !.tasks = RemoveAt(@, i), !.fx = @ \cup {"console.log"}],
                         Msg("getPNGOfNode", [png |-> c.tasks[i].info])))

\* the fetch resolved and its arrayBuffer was read
fetchResponded(c, i) ==
    caughtAndLogged(
        postMessage([c EXCEPT !.tasks = RemoveAt(@, i), !.fx = @ \cup {"console.log"}],
                    Msg("getPNGOfNode", [png |-> c.tasks[i].info])))

FetchResponded ==
    \E i \in 1..Len(tasks) :
        /\ tasks[i].kind = "fetch"
        /\ Step(fetchResponded(Here, i), Op("fetchResponded", "", i))
        /\ UNCHANGED <<obs, dbg, nStates, logLines, stateLogPattern, sendFails, http, plugin>>

FetchFailed ==
    \E i \in 1..Len(tasks) :
        /\ tasks[i].kind = "fetch"
        /\ Step([Here EXCEPT !.tasks = RemoveAt(@, i), !.fx = @ \cup {"console.log"}],
                Op("fetchFailed", "", i))
        /\ UNCHANGED <<obs, dbg, nStates, logLines, stateLogPattern, sendFails, http, plugin>>

\* the fetch resolved, response.arrayBuffer() rejects: the inner promise is
\* not returned to the chain that ends in .catch, nothing is logged
FetchUnreadable ==
    \E i \in 1..Len(tasks) :
        /\ tasks[i].kind = "fetch"
        /\ Step([Here EXCEPT !.tasks = RemoveAt(@, i), !.fx = @ \cup {"rejected"}],
                Op("fetchUnreadable", "", i))
        /\ UNCHANGED <<obs, dbg, nStates, logLines, stateLogPattern, sendFails, http, plugin>>

\* ------------------------------------------------------ the environment
\* the planner appends a line to the log shown in the bound editor
AppendLine ==
    \E text \in LineTexts :
        /\ stateLogEditor # NoFile
        /\ Len(logLines[stateLogEditor]) < MaxLines
        /\ logLines' = [logLines EXCEPT ![stateLogEditor] = Append(@, text)]
        /\ Step(Here, Op("appendLine", stateLogEditor, text))
        /\ UNCHANGED <<obs, dbg, nStates, stateLogPattern, sendFails, http, plugin>>

\* the webview starts or stops refusing messages (postMessage throws)
WebviewFailure ==
    /\ webViewPanel # "none"
    /\ sendFails' = ~sendFails
    /\ Step(Here, Op("webviewFailure", "", 0))
    /\ UNCHANGED <<obs, dbg, nStates, logLines, stateLogPattern, http, plugin>>

\* the user closes the log document
DocumentClosed ==
    /\ stateLogEditor # NoFile
    /\ ~docClosed
    /\ Step([Here EXCEPT !.closed = TRUE], Op("documentClosed", stateLogEditor, 0))
    /\ UNCHANGED <<obs, dbg, nStates, logLines, stateLogPattern, sendFails, http, plugin>>

\* ------------------------------------------------- the HTTP helpers' steps
\* a helper is called: the promise is created and the request sent
HttpRequest ==
    \E fn \in Helpers :
        /\ http.phase \in {"idle", "settled"}
        /\ http' = [fn |-> fn, phase |-> "pending"]
        /\ UNCHANGED <<ctl, env, eff, history, plugin>>

\* the request library calls back with its outcome
HttpCallback ==
    \E error \in Errors, httpResponse \in Responses, body \in Bodies :
        /\ http.phase = "pending"
        /\ LET calls == CASE http.fn = "getJson" -> getJson(error, httpResponse, body)
                          [] http.fn = "getText" -> getText(error, httpResponse, body)
                          [] http.fn = "postJson" -> postJson(error, httpResponse, body)
           IN  http' = [fn |-> http.fn, phase |-> "settled",
                        error |-> error, httpResponse |-> httpResponse, body |-> body,
                        calls |-> calls, promise |-> settled(calls)]
        /\ UNCHANGED <<ctl, env, eff, history, plugin>>

\* ------------------------------------------------- the plugin's steps
\* the user clicks node d of the search tree
Click ==
    \E d \in 1..Len(plugin.treeData) :
        /\ plugin' = [plugin EXCEPT
                         !.clicked = d,
                         !.updateWithPlan = click(plugin.treeData, plugin.planimation, d)]
        /\ UNCHANGED <<ctl, env, eff, http, history>>

\* loadStatespacePlanimation(): the domain and the problem are sent to ground
\* and initialisePlanimation is called for the first time
LoadStatespacePlanimation ==
    /\ Len(plugin.chains) < MaxChains
    /\ plugin' = [plugin EXCEPT
                     !.grounding = @ + 1,
                     !.chains = Append(@, initialisePlanimation(plugin.element, NewChain))]
    /\ UNCHANGED <<ctl, env, eff, http, history>>

\* the promise of ground resolves: the tree is the root alone and
\* launchVizPlanimation opens the tab that holds the element 'planimation'
GroundResolved ==
    /\ plugin.grounding > 0
    /\ plugin' = [plugin EXCEPT
                     !.grounding = @ - 1,
                     !.treeData = <<RootNode>>,
                     !.element = TRUE,
                     !.clicked = 0, !.updateWithPlan = << >>]
    /\ UNCHANGED <<ctl, env, eff, http, history>>

\* the timer of call chain i fires: initialisePlanimation is called again
Retry(i) ==
    /\ i <= Len(plugin.chains)
    /\ plugin.chains[i].pc = "timer"
    /\ plugin' = [plugin EXCEPT
                     !.chains[i] = initialisePlanimation(plugin.element, @)]
    /\ UNCHANGED <<ctl, env, eff, http, history>>

TimerFired == \E i \in 1..MaxChains : Retry(i)

\* the callback of require in call chain i: the object is created and its view
\* is appended to the element; appendChild of a missing element throws
RequireCallback(i) ==
    /\ i <= Len(plugin.chains)
    /\ plugin.chains[i].pc = "require"
    /\ plugin' = [plugin EXCEPT
                     !.planimation = "Planimation",
                     !.views = IF plugin.element THEN @ + 1 ELSE @,
                     !.chains[i].pc = IF plugin.element THEN "done" ELSE "threw",
                     !.clicked = 0, !.updateWithPlan = << >>]
    /\ UNCHANGED <<ctl, env, eff, http, history>>

PlanimationCreated == \E i \in 1..MaxChains : RequireCallback(i)

\* the library of call chain i cannot be loaded: require is given no errback
\* and the callback is never called
RequireFailed ==
    \E i \in 1..Len(plugin.chains) :
        /\ plugin.chains[i].pc = "require"
        /\ plugin' = [plugin EXCEPT !.chains[i].pc = "failed"]
        /\ UNCHANGED <<ctl, env, eff, http, history>>

\* ------------------------------------------------------ specifications
\* The plugin over every search tree of up to MaxNodes nodes.
InitPlugin ==
    /\ InitWith(PatternId)
    /\ history = NoHistory
    /\ plugin \in {[NoPlugin EXCEPT !.treeData = tree, !.element = TRUE,
                                     !.chains = <<initialisePlanimation(TRUE,
                                                    initialisePlanimation(FALSE, NewChain))>>] :
                       tree \in Trees}

NextPlugin ==
    \/ Click
    \/ PlanimationCreated

SpecPlugin == InitPlugin /\ [][NextPlugin]_vars

\* The plugin from the click on 'Planimate': the element appears when ground
\* answers, if it answers; a timer that is set fires, and the callback of
\* require is called unless the library fails to load.
NextInitialise ==
    \/ LoadStatespacePlanimation
    \/ GroundResolved
    \/ TimerFired
    \/ PlanimationCreated
    \/ RequireFailed
    \/ Click

SpecInitialise ==
    /\ Init
    /\ [][NextInitialise]_vars
    /\ \A i \in 1..MaxChains : WF_vars(Retry(i)) /\ WF_vars(RequireCallback(i))

\* The HTTP helpers, for every outcome of the request.
NextHttp ==
    \/ HttpRequest
    \/ HttpCallback

SpecHttp == Init /\ [][NextHttp]_vars

\* The visibility gate: every handler that posts a command, one source, one log file.
NextGate ==
    \/ ShowDebugView
    \/ ViewCreated
    \/ ViewStateUnobserved
    \/ PanelDisposed
    \/ ChangedViewState
    \/ Observe("s1")
    \/ StateAdded("s1")
    \/ StateUpdated("s1")
    \/ BetterState("s1")
    \/ PlanFound("s1")
    \/ PlanGenerated
    \/ SetDebuggerState
    \/ ShowAllStates
    \/ Clear
    \/ Onload
    \/ StateSelected
    \/ FetchResponded
    \/ FetchFailed
    \/ ToggleStateLog
    \/ PickerReturned({"uri1"})
    \/ OpenCompleted

SpecGate == Init /\ [][NextGate]_vars

\* The relay of the sources' events: two sources, observed in any order.
NextObserve ==
    \/ ShowDebugView
    \/ ViewCreated
    \/ PanelDisposed
    \/ ChangedViewState
    \/ \E source \in Sources : Observe(source)
    \/ \E source \in Sources : StateAdded(source)
    \/ \E source \in Sources : StateUpdated(source)
    \/ \E source \in Sources : BetterState(source)
    \/ \E source \in Sources : PlanFound(source)
    \/ PlanGenerated
    \/ PlanFailed

SpecObserve == Init /\ [][NextObserve]_vars

\* The state log: correlation cache and scroll, one source, one log file.
NextLog ==
    \/ ShowDebugView
    \/ ViewCreated
    \/ Observe("s1")
    \/ StateAdded("s1")
    \/ ToggleStateLog
    \/ PickerReturned({"uri1"})
    \/ OpenCompleted
    \/ ScrollStateLog
    \/ ReopenCompleted
    \/ StartDebugger
    \/ UnexpectedCommand
    \/ Clear
    \/ AppendLine
    \/ DocumentClosed

SpecLog == Init /\ [][NextLog]_vars

\* The state log when the pattern option is left at its default.
InitDefault == InitWith(PatternDefault) /\ history = NoHistory /\ plugin = NoPlugin

SpecLogDefault == InitDefault /\ [][NextLog]_vars

\* The log binding: toggles over two files, with the panel coming and going.
NextToggle ==
    \/ ShowDebugView
    \/ ViewCreated
    \/ PanelDisposed
    \/ ChangedViewState
    \/ ToggleStateLog
    \/ PickerReturned(Files)
    \/ OpenCompleted
    \/ OpenFailed
    \/ StartDebugger
    \/ Clear

SpecToggle == Init /\ [][NextToggle]_vars

\* The selection of a state in the view: plan report and animation request.
NextSelect ==
    \/ ShowDebugView
    \/ ViewCreated
    \/ PanelDisposed
    \/ ChangedViewState
    \/ Observe("s1")
    \/ StateAdded("s1")
    \/ StateSelected
    \/ PlanGenerated
    \/ PlanFailed
    \/ FetchResponded
    \/ FetchFailed

SpecSelect == Init /\ [][NextSelect]_vars

\* The relay with a webview that may refuse messages, one source.
NextRelay ==
    \/ ShowDebugView
    \/ ViewCreated
    \/ ChangedViewState
    \/ WebviewFailure
    \/ Observe("s1")
    \/ StateAdded("s1")
    \/ StateUpdated("s1")
    \/ BetterState("s1")
    \/ PlanFound("s1")
    \/ ShowAllStates
    \/ PlanGenerated
    \/ PlanFailed

SpecRelay == Init /\ [][NextRelay]_vars

\* Overlapping selections of states, with the history kept.
InitOverlap ==
    /\ InitWith(PatternId)
    /\ history = [on |-> TRUE, events |-> << >>]
    /\ plugin = NoPlugin

NextOverlap ==
    \/ ShowDebugView
    \/ ViewCreated
    \/ Observe("s1")
    \/ StateAdded("s1")
    \/ SelectState
    \/ PlanGenerated
    \/ PlanFailed
    \/ FetchResponded
    \/ FetchFailed

SpecOverlap == InitOverlap /\ [][NextOverlap]_vars

\* The three parts of a selection with a bound log: plan report, scroll, image.
NextAnimate ==
    \/ ShowDebugView
    \/ ViewCreated
    \/ Observe("s1")
    \/ StateAdded("s1")
    \/ ToggleStateLog
    \/ PickerReturned({"uri1"})
    \/ OpenCompleted
    \/ DocumentClosed
    \/ SelectState
    \/ PlanGenerated
    \/ PlanFailed
    \/ ReopenCompleted
    \/ ReopenFailed
    \/ FetchResponded
    \/ FetchFailed
    \/ FetchUnreadable

SpecAnimate == Init /\ [][NextAnimate]_vars

\* What leaves the correlation cache alone: every handler next to the scroll.
NextFrame ==
    \/ ShowDebugView
    \/ ViewCreated
    \/ ChangedViewState
    \/ Observe("s1")
    \/ StateAdded("s1")
    \/ StateUpdated("s1")
    \/ BetterState("s1")
    \/ PlanFound("s1")
    \/ PlanGenerated
    \/ SetDebuggerState
    \/ Onload
    \/ StopDebugger
    \/ Reset
    \/ ToggleStateLog
    \/ PickerReturned({"uri1"})
    \/ OpenCompleted
    \/ AppendLine
    \/ ScrollStateLog

SpecFrame == Init /\ [][NextFrame]_vars

\* The cache while toggles over two log files overlap.
NextRebind ==
    \/ ShowDebugView
    \/ ViewCreated
    \/ Observe("s1")
    \/ StateAdded("s1")
    \/ ToggleStateLog
    \/ PickerReturned(Files)
    \/ OpenCompleted
    \/ AppendLine
    \/ ScrollStateLog

SpecRebind == Init /\ [][NextRebind]_vars

\* ============================================================== claims
\* the states the observed source knows now, in id order
CurrentSnapshot ==
    IF search = NoSearch THEN << >>
    ELSE [i \in 1..nStates[search] |->
             [src |-> search, id |-> i, origId |-> OrigIdOf(i)]]

\* C1: when changedViewState is handled for a visible panel while the pending
\* flag is set (updates were sent to the hidden panel), exactly two commands
\* are posted: 'debuggerState' first, then one 'showAllStates' whose payload
\* is the source's current snapshot; the flag is false when the handler returns.
C1_VisibilityResend ==
    [][ (stateChangedWhileViewHidden /\ lastOp' = Op("changedViewState", "visible", 0))
        => /\ Len(sent') = 2
           /\ sent'[1].command = "debuggerState"
           /\ sent'[2].command = "showAllStates"
           /\ sent'[2].state = CurrentSnapshot
           /\ ~stateChangedWhileViewHidden' ]_vars

\* a resend of two states has just been posted
C1_Witness ==
    /\ lastOp = Op("changedViewState", "visible", 0)
    /\ Len(sent) = 2
    /\ sent[2].command = "showAllStates"
    /\ Len(sent[2].state) = 2
    /\ ~stateChangedWhileViewHidden

\* the outbound command the step produced ("" if it produced none)
ProducedCommand(op, effects) ==
    CASE op.op = "setDebuggerState" -> "debuggerState"
      [] op.op = "handleMessage" /\ op.a = "onload" -> "debuggerState"
      [] op.op = "handleMessage" /\ op.a = "toggleStateLog"
            /\ "showOpenDialog" \notin effects -> "stateLog"
      [] op.op = "openCompleted" -> "stateLog"
      [] op.op = "showAllStates" -> "showAllStates"
      [] op.op = "clear" -> "clear"
      [] op.op = "planGenerated" -> "showStatePlan"
      [] op.op = "fetchResponded" -> "getPNGOfNode"
      [] op.op = "stateAdded" /\ "handler" \in effects -> "stateAdded"
      [] op.op = "stateUpdated" /\ "handler" \in effects -> "stateUpdated"
      [] op.op = "planFound" /\ "handler" \in effects -> "showPlan"
      [] OTHER -> ""

\* C2 as stated: every outbound command produced while the panel is not
\* visible (hidden, or no panel at all) is still sent, and the pending flag
\* is true afterwards.
C2_SentWheneverNotVisible ==
    (ProducedCommand(lastOp, fx) # "" /\ webViewPanel # "visible")
        => (Len(sent) = 1 /\ stateChangedWhileViewHidden)

\* C2, amended: an outbound command produced while the panel exists and is
\* hidden is sent and the pending flag is true afterwards; produced while no
\* panel exists it is not sent and the flag keeps its value.
C2_VisibilityGate ==
    [][ ProducedCommand(lastOp', fx') # ""
        => /\ webViewPanel' = "hidden"
                => /\ Len(sent') = 1
                   /\ sent'[1].command = ProducedCommand(lastOp', fx')
                   /\ stateChangedWhileViewHidden'
           /\ webViewPanel' = "none"
                => /\ sent' = << >>
                   /\ stateChangedWhileViewHidden' = stateChangedWhileViewHidden ]_vars

\* a state was relayed to the hidden panel
C2_Witness ==
    /\ webViewPanel = "hidden"
    /\ lastOp.op = "stateAdded"
    /\ Len(sent) = 1
    /\ sent[1].command = "stateAdded"
    /\ stateChangedWhileViewHidden

\* the step is a scrollStateLog run (called directly, from 'stateSelected', or
\* resumed after the reopen) that reaches the cache check for origId o with
\* document f in the bound editor
ScrollLooksUp(o, f) ==
    \/ \E id \in 1..MaxStates :
          /\ \/ lastOp' = Op("scrollStateLog", "", id)
             \/ lastOp' = Op("handleMessage", "stateSelected", id)
          /\ stateLogFile # NoFile /\ stateLogEditor = f /\ search # NoSearch
          /\ id <= nStates[search]
          /\ ~docClosed
          /\ o = OrigIdOf(id)
    \/ \E i \in 1..Len(tasks) :
          /\ lastOp' = Op("reopenCompleted", f, i)
          /\ tasks[i].kind = "reopen"
          /\ o = tasks[i].state.origId

\* the lines of a document whose first capture group is origId o
MatchingLines(lines, o) ==
    {i \in 0..(Len(lines) - 1) :
        LET m == patternMatch(lines[i + 1], stateLogPattern)
        IN  m.matched /\ m.group1 = o}

\* the smallest of them, or NoLine
FirstMatchingLine(lines, o) ==
    LET M == MatchingLines(lines, o)
    IN  IF M = {} THEN NoLine ELSE CHOOSE i \in M : \A j \in M : i <= j

\* C3 as stated: once a line index L (0 included) is memoized for an origId,
\* every later scrollStateLog for that origId reveals exactly line L and does
\* not scan the document.
C3_IdempotentCorrelation ==
    [][ \A o \in OrigIds, f \in Files :
            (ScrollLooksUp(o, f) /\ stateLogLineCache[o] # NoLine)
            => /\ revealed' = stateLogLineCache[o]
               /\ "scan" \notin fx'
               /\ stateLogLineCache' = stateLogLineCache ]_vars

\* C4: on a cache miss the lines are scanned from index 0 upwards; if a line's
\* first capture group equals the state's origId, the smallest such index is
\* revealed and exactly (origId -> that index) is added to the cache.  With
\* the id on lines 3 and 7 the scan yields 3.
C4_FirstMatchPolicy ==
    [][ /\ scanFrom(<<0, 0, 0, 1, 0, 0, 0, 1>>, PatternId, 1, 0) = 3
        /\ \A o \in OrigIds, f \in Files :
              (/\ ScrollLooksUp(o, f)
               /\ stateLogLineCache[o] = NoLine
               /\ MatchingLines(logLines[f], o) # {})
              => /\ "scan" \in fx'
                 /\ revealed' = FirstMatchingLine(logLines[f], o)
                 /\ stateLogLineCache' =
                        [stateLogLineCache EXCEPT ![o] = FirstMatchingLine(logLines[f], o)] ]_vars

\* a scan has revealed and memoized a line that is followed by another match
C4_Witness ==
    /\ lastOp.op = "scrollStateLog"
    /\ "scan" \in fx
    /\ stateLogEditor # NoFile
    /\ revealed = 1
    /\ stateLogLineCache[OrigIdOf(lastOp.n)] = 1
    /\ Cardinality(MatchingLines(logLines[stateLogEditor], OrigIdOf(lastOp.n))) = 2

\* C5: handling 'startDebugger' issues the host start command and leaves the
\* correlation cache empty; a scrollStateLog that finds the cache as
\* startDebugger left it scans the document and reveals what the scan finds.
C5_CacheResetOnRestart ==
    [][ /\ lastOp' = Op("handleMessage", "startDebugger", 0)
            => /\ "pddl.searchDebugger.start" \in fx'
               /\ stateLogLineCache' = EmptyCache
        /\ \A o \in OrigIds, f \in Files :
              (ScrollLooksUp(o, f) /\ stateLogLineCache = EmptyCache)
              => /\ "scan" \in fx'
                 /\ revealed' = FirstMatchingLine(logLines[f], o) ]_vars

\* startDebugger has just dropped memoized lines
C5_Witness ==
    /\ lastOp = Op("handleMessage", "startDebugger", 0)
    /\ "pddl.searchDebugger.start" \in fx
    /\ "cache.dropped" \in fx
    /\ stateLogLineCache = EmptyCache
    /\ stateLogEditor # NoFile

\* C7: scrollStateLog(stateId) reveals nothing, reopens nothing, writes no
\* cache entry and raises nothing whenever no log file or editor is bound, no
\* source is observed, or stateId is not a state the source knows.
C7_ScrollNoOp ==
    [][ \A id \in 0..MaxStates :
            (/\ lastOp' = Op("scrollStateLog", "", id)
             /\ \/ stateLogFile = NoFile
                \/ stateLogEditor = NoFile
                \/ search = NoSearch
                \/ id < 1
                \/ id > nStates[search])
            => /\ revealed' = NoLine
               /\ fx' = {}
               /\ stateLogLineCache' = stateLogLineCache
               /\ tasks' = tasks
               /\ stateLogEditor' = stateLogEditor
               /\ docClosed' = docClosed ]_vars

\* a scroll to an id the source does not know, with a closed log document
\* that holds a line for it
C7_Witness ==
    /\ lastOp.op = "scrollStateLog"
    /\ stateLogFile # NoFile /\ stateLogEditor # NoFile /\ search # NoSearch
    /\ lastOp.n > nStates[search]
    /\ docClosed
    /\ MatchingLines(logLines[stateLogEditor], OrigIdOf(lastOp.n)) # {}
    /\ revealed = NoLine

\* C8 as stated: right after clear() the correlation cache is empty and the
\* log binding (stateLogFile and stateLogEditor) is cleared.
C8_ClearedTogether ==
    lastOp.op = "clear"
        => /\ stateLogLineCache = EmptyCache
           /\ stateLogFile = NoFile
           /\ stateLogEditor = NoFile

\* C8, amended: clear() empties the correlation cache and leaves the log
\* binding (stateLogFile and stateLogEditor) as it was.
C8_ClearEmptiesCacheOnly ==
    [][ lastOp' = Op("clear", "", 0)
        => /\ stateLogLineCache' = EmptyCache
           /\ stateLogFile' = stateLogFile
           /\ stateLogEditor' = stateLogEditor ]_vars

\* clear() has dropped memoized lines of a bound log
C8_Witness ==
    /\ lastOp = Op("clear", "", 0)
    /\ "cache.dropped" \in fx
    /\ stateLogLineCache = EmptyCache
    /\ stateLogFile # NoFile
    /\ stateLogEditor # NoFile

\* C6: after any sequence of observe calls the view holds exactly the four
\* subscriptions of the source observed last, no listener of an earlier source
\* is left registered, and an event of an earlier source runs no handler,
\* posts no command and starts nothing.
C6_SubscriptionReplacement ==
    [][ IF search' = NoSearch
        THEN subscriptions' = {} /\ listeners' = {}
        ELSE /\ subscriptions' = {<<search', k>> : k \in Kinds}
             /\ Cardinality(subscriptions') = 4
             /\ listeners' = subscriptions'
             /\ lastOp'.op \in Kinds
                 => /\ ("handler" \in fx') <=> (lastOp'.a = search)
                    /\ lastOp'.a # search
                         => /\ sent' = << >>
                            /\ tasks' = tasks
                            /\ stateChangedWhileViewHidden' = stateChangedWhileViewHidden ]_vars

\* the second source is observed, the view is open and works on a plan of the
\* first source's state, and the first source has just emitted a state
C6_Witness ==
    /\ search = "s2"
    /\ lastOp = Op("stateAdded", "s1", 2)
    /\ webViewPanel = "visible"
    /\ \E i \in 1..Len(tasks) : tasks[i].kind = "plan" /\ tasks[i].state.src = "s1"
    /\ "handler" \notin fx
    /\ sent = << >>

\* C9 as stated: toggleStateLog with a log file bound unbinds the log and
\* posts 'stateLog' with state = null.
C9_ToggleUnbinds ==
    [][ (lastOp' = Op("handleMessage", "toggleStateLog", 0) /\ stateLogFile # NoFile)
        => /\ stateLogFile' = NoFile
           /\ stateLogEditor' = NoFile
           /\ sent' = <<Msg("stateLog", "null")>> ]_vars

\* C10 as stated: toggleStateLog with no log bound prompts for a file; with
\* no selection nothing changes and nothing is posted; with a file chosen the
\* file and an editor on it become the binding and 'stateLog' with the
\* file's path is posted.
C10_ToggleBindsAndPosts ==
    [][ /\ (lastOp' = Op("handleMessage", "toggleStateLog", 0) /\ stateLogFile = NoFile)
            => "showOpenDialog" \in fx'
        /\ \A i \in 1..Len(tasks) :
              /\ lastOp' = Op("pickerReturned", NoFile, i)
                    => /\ UNCHANGED <<stateLogFile, stateLogEditor, stateLogLineCache,
                                     stateChangedWhileViewHidden>>
                       /\ sent' = << >>
              /\ \A f \in Files :
                    lastOp' = Op("openCompleted", f, i)
                    => /\ stateLogFile' = f
                       /\ stateLogEditor' = f
                       /\ sent' = <<Msg("stateLog", fsPath(f))>> ]_vars

\* C10, amended: toggleStateLog with no log bound prompts for a file and
\* posts nothing before the prompt returns; with no selection the binding, the
\* cache and the pending flag are unchanged and nothing is posted; with a file
\* chosen the file is stored as the bound file and, once it is opened, the
\* editor on the chosen file is stored as the bound editor; then, if the panel
\* still exists, 'stateLog' is posted with the path of the file bound at that
\* moment, and with no panel nothing is posted.
C10_ToggleWhileUnbound ==
    [][ /\ (lastOp' = Op("handleMessage", "toggleStateLog", 0) /\ stateLogFile = NoFile)
            => /\ "showOpenDialog" \in fx'
               /\ sent' = << >>
               /\ tasks' = Append(tasks, Task("picker", NoFile, NoState, ""))
               /\ UNCHANGED <<stateLogFile, stateLogEditor>>
        /\ \A i \in 1..Len(tasks) :
              /\ lastOp' = Op("pickerReturned", NoFile, i)
                    => /\ UNCHANGED <<stateLogFile, stateLogEditor, stateLogLineCache,
                                     stateChangedWhileViewHidden>>
                       /\ sent' = << >>
              /\ \A f \in Files :
                    /\ lastOp' = Op("pickerReturned", f, i)
                          => /\ stateLogFile' = f
                             /\ sent' = << >>
                    /\ lastOp' = Op("openCompleted", f, i)
                          => /\ stateLogEditor' = f
                             /\ stateLogFile' = stateLogFile
                             /\ sent' = IF webViewPanel = "none" THEN << >>
                                        ELSE <<Msg("stateLog", fsPath(stateLogFile))>> ]_vars

\* the chosen file was opened, bound and announced
C10_Witness ==
    /\ lastOp.op = "openCompleted"
    /\ stateLogFile = lastOp.a
    /\ stateLogEditor = lastOp.a
    /\ sent = <<Msg("stateLog", fsPath(lastOp.a))>>

\* C11 as stated: a failure while handling 'stateSelected', also one after a
\* suspension inside showStatePlan, is caught by the handler and shown as an
\* error message; none escapes as an unhandled failure.  (Under SpecSelect
\* every plan report is one requested by 'stateSelected'.)
C11_SelectionFailureShown ==
    lastOp.op \in {"handleMessage", "planGenerated", "planFailed"}
        => /\ "rejected" \notin fx
           /\ "thrown" \notin fx
           /\ lastOp.op = "planFailed" => "showErrorMessage" \in fx

\* C12 as stated: when rendering the plan of a better state fails (no panel
\* exists, or the report generation rejects) an error notification is shown.
\* (Under SpecObserve every plan report is one requested by a better-state event.)
C12_BetterStateFailureShown ==
    (lastOp.op \in {"betterState", "planFailed"} /\ "rejected" \in fx)
        => "showErrorMessage" \in fx

\* the step relays a state-added, state-updated or plan-found event of the
\* observed source, or is a call of showAllStates
RelayStep ==
    \/ lastOp'.op \in {"stateAdded", "stateUpdated", "planFound"} /\ "handler" \in fx'
    \/ lastOp'.op = "showAllStates"

\* C13: when the send to the surface fails inside addState, update,
\* displayPlan or showAllStates, nothing is thrown to the caller: the failure
\* is caught and logged, and the cache, the log binding, the subscriptions
\* (and the pending flag and the suspended handlers) are unchanged.
C13_RelayIsolation ==
    [][ (RelayStep /\ sendFails /\ webViewPanel # "none")
        => /\ "thrown" \notin fx'
           /\ "rejected" \notin fx'
           /\ "console.log" \in fx'
           /\ UNCHANGED <<stateLogLineCache, stateLogFile, stateLogEditor,
                          subscriptions, search, listeners,
                          stateChangedWhileViewHidden, tasks>> ]_vars

\* a state-added relay met a webview that refused the message
C13_Witness ==
    /\ lastOp.op = "stateAdded"
    /\ "handler" \in fx
    /\ sendFails
    /\ webViewPanel # "none"
    /\ Len(sent) = 1
    /\ "console.log" \in fx
    /\ "thrown" \notin fx

\* state i of source src as the source emits it
EmittedState(src, i) == [src |-> src, id |-> i, origId |-> OrigIdOf(i)]

\* C14: while a panel exists, an event of the observed source produces, within
\* its own step and so in arrival order: state-added, one 'stateAdded'
\* carrying that state; state-updated, one 'stateUpdated' carrying that state;
\* plan-found, one 'showPlan' carrying the whole sequence in order;
\* better-state, no command and at most one plan report, which in turn posts
\* at most one 'showStatePlan'.
C14_RelayMapping ==
    [][ /\ (webViewPanel # "none" /\ "handler" \in fx')
            => /\ lastOp'.op = "stateAdded"
                    => /\ sent' = <<Msg("stateAdded", EmittedState(lastOp'.a, lastOp'.n))>>
                       /\ tasks' = tasks
               /\ lastOp'.op = "stateUpdated"
                    => /\ sent' = <<Msg("stateUpdated", EmittedState(lastOp'.a, lastOp'.n))>>
                       /\ tasks' = tasks
               /\ lastOp'.op = "planFound"
                    => /\ sent' = <<Msg("showPlan",
                                      [i \in 1..lastOp'.n |->
                                          EmittedState(lastOp'.a, nStates[lastOp'.a] + 1 - i)])>>
                       /\ tasks' = tasks
               /\ lastOp'.op = "betterState"
                    => /\ sent' = << >>
                       /\ \/ tasks' = tasks
                          \/ tasks' = Append(tasks,
                                Task("plan", NoFile, EmittedState(lastOp'.a, lastOp'.n), ""))
        /\ lastOp'.op = "planGenerated"
            => /\ Len(tasks') = Len(tasks) - 1
               /\ \/ sent' = << >>
                  \/ Len(sent') = 1 /\ sent'[1].command = "showStatePlan" ]_vars

\* a plan of two states was relayed
C14_Witness ==
    /\ lastOp.op = "planFound"
    /\ "handler" \in fx
    /\ Len(sent) = 1
    /\ sent[1].command = "showPlan"
    /\ Len(sent[1].state) = 2
    /\ sent[1].state[1].id = 2

\* the step is a full reset: 'startDebugger' is handled or clear() runs
FullReset ==
    \/ lastOp' = Op("handleMessage", "startDebugger", 0)
    \/ lastOp' = Op("clear", "", 0)

\* C15: a step that is not a full reset never removes a correlation-cache
\* entry and never replaces its line index by a different one.
C15_CacheStability ==
    [][ ~FullReset
        => \A o \in OrigIds :
              stateLogLineCache[o] # NoLine
              => stateLogLineCache'[o] = stateLogLineCache[o] ]_vars

\* a scroll served from the cache after the log grew by another matching line
C15_Witness ==
    /\ lastOp.op = "scrollStateLog"
    /\ "scan" \notin fx
    /\ stateLogEditor # NoFile
    /\ revealed = 1
    /\ stateLogLineCache[OrigIdOf(lastOp.n)] = 1
    /\ Cardinality(MatchingLines(logLines[stateLogEditor], OrigIdOf(lastOp.n))) = 2

\* the promise of a GET helper is settled
GetSettled == http.phase = "settled" /\ http.fn \in {"getJson", "getText"}

\* C16 as stated: for every outcome getJson and getText settle exactly once;
\* they resolve with the body exactly when there is no transport error and the
\* status is 200, reject with the transport error when there is one, and
\* otherwise reject with 'HTTP status code <n>'.
C16_GetSettlesByStatus ==
    GetSettled
    => /\ Len(http.calls) = 1
       /\ LET ok == /\ http.error = NoError
                    /\ http.httpResponse.present
                    /\ http.httpResponse.statusCode = 200
          IN  /\ ok => http.promise = resolve(http.body)
              /\ http.error # NoError => http.promise = reject(http.error)
              /\ (~ok /\ http.error = NoError)
                    => /\ http.promise.fn = "reject"
                       /\ http.promise.arg[1] = "HTTP status code "

\* C17 as stated: for every outcome postJson settles exactly once; it
\* resolves with the body exactly when there is no transport error and the
\* status is in 200..204, and rejects for every other outcome, statuses
\* below 200 and above 204 included.
C17_PostSettlesByStatus ==
    (http.phase = "settled" /\ http.fn = "postJson")
    => /\ Len(http.calls) = 1
       /\ LET ok == /\ http.error = NoError
                    /\ http.httpResponse.present
                    /\ http.httpResponse.statusCode \in 200..204
          IN  /\ ok => http.promise = resolve(http.body)
              /\ http.error # NoError => http.promise = reject(http.error)
              /\ (~ok /\ http.error = NoError)
                    => http.promise = reject(statusMessage(http.httpResponse.statusCode))

\* the commands handleMessage has a case for
KnownCommands ==
    {"onload", "stateSelected", "startDebugger", "stopDebugger", "reset", "toggleStateLog"}

\* C18: handling a message whose command is none of the six known ones posts
\* nothing, issues no host command, raises nothing (it only logs a warning) and
\* leaves the cache, the log binding, the pending flag, the subscriptions and
\* the suspended handlers unchanged.
C18_UnknownCommandIgnored ==
    [][ (lastOp'.op = "handleMessage" /\ lastOp'.a \notin KnownCommands)
        => /\ sent' = << >>
           /\ fx' = {"console.warn"}
           /\ revealed' = NoLine
           /\ UNCHANGED <<stateLogLineCache, stateLogFile, stateLogEditor, docClosed,
                          stateChangedWhileViewHidden, subscriptions, search, listeners,
                          tasks, webViewPanel>> ]_vars

\* an unknown command arrived while a log is bound, lines are memoized and a
\* source is observed
C18_Witness ==
    /\ lastOp.op = "handleMessage"
    /\ lastOp.a \in UnknownCommands
    /\ fx = {"console.warn"}
    /\ stateLogLineCache # EmptyCache
    /\ stateLogFile # NoFile /\ stateLogEditor # NoFile
    /\ subscriptions # {}

\* the step posts 'showAllStates'
Resent == \E k \in 1..Len(sent') : sent'[k].command = "showAllStates"

\* the step takes the pending flag from true to false
FlagCleared == stateChangedWhileViewHidden /\ ~stateChangedWhileViewHidden'

\* C19 as stated: the pending flag goes from true to false, and a visibility
\* notification posts 'showAllStates', only while handling a notification in
\* which the surface went from hidden to visible; a notification for a surface
\* that was already visible posts no 'showAllStates'.
C19_ResendOnlyOnHiddenToVisible ==
    [][ /\ FlagCleared
            => (lastOp' = Op("changedViewState", "visible", 0) /\ webViewPanel = "hidden")
        /\ (lastOp'.op = "changedViewState" /\ Resent)
            => (lastOp'.a = "visible" /\ webViewPanel = "hidden") ]_vars

\* C19, amended: the pending flag goes from true to false only while handling
\* a notification that reports the surface visible, and a visibility
\* notification posts 'showAllStates' exactly when it reports the surface
\* visible while the pending flag is set, whether or not the view knew the
\* surface as hidden before.
C19_ResendOnVisibleWithFlag ==
    [][ /\ FlagCleared => lastOp' = Op("changedViewState", "visible", 0)
        /\ lastOp'.op = "changedViewState"
            => (Resent <=> (lastOp'.a = "visible" /\ stateChangedWhileViewHidden)) ]_vars

\* a notification for a visible surface has resent the states of the source
C19_Witness ==
    /\ lastOp = Op("changedViewState", "visible", 0)
    /\ webViewPanel = "visible"
    /\ Len(sent) = 2
    /\ sent[2] = Msg("showAllStates", CurrentSnapshot)
    /\ search # NoSearch
    /\ ~stateChangedWhileViewHidden

\* C20: a scan that finds no line for the state's origId reveals nothing and
\* leaves the cache unchanged, so that the next scrollStateLog for the state
\* scans again; once a matching line is in the log the scan reveals the first
\* such line and memoizes it.
C20_NoNegativeCaching ==
    [][ \A o \in OrigIds, f \in Files :
            (ScrollLooksUp(o, f) /\ stateLogLineCache[o] = NoLine)
            => /\ "scan" \in fx'
               /\ IF MatchingLines(logLines[f], o) = {}
                  THEN /\ revealed' = NoLine
                       /\ stateLogLineCache' = stateLogLineCache
                  ELSE /\ revealed' = FirstMatchingLine(logLines[f], o)
                       /\ stateLogLineCache'[o] = FirstMatchingLine(logLines[f], o) ]_vars

\* a scan of a log that has lines, none of them for the state
C20_Witness ==
    /\ lastOp.op = "scrollStateLog"
    /\ "scan" \in fx
    /\ stateLogEditor # NoFile
    /\ Len(logLines[stateLogEditor]) >= 2
    /\ MatchingLines(logLines[stateLogEditor], OrigIdOf(lastOp.n)) = {}
    /\ revealed = NoLine
    /\ stateLogLineCache[OrigIdOf(lastOp.n)] = NoLine

\* a toggleStateLog invocation is suspended at the file picker or at the
\* opening of the document
ToggleInFlight == \E i \in 1..Len(tasks) : tasks[i].kind \in {"picker", "open"}

\* C21 as stated: whenever an editor is bound and no toggleStateLog is still
\* in flight, the editor is a view onto the currently bound log file, also
\* after overlapping toggles resumed in any order.
C21_SingleConsistentBinding ==
    (stateLogEditor # NoFile /\ ~ToggleInFlight) => stateLogEditor = stateLogFile

\* the history holds e1, e2, e3, e4 in this order
InOrder(e1, e2, e3, e4) ==
    \E i, j, k, l \in 1..Len(history.events) :
        /\ i < j /\ j < k /\ k < l
        /\ history.events[i] = e1 /\ history.events[j] = e2
        /\ history.events[k] = e3 /\ history.events[l] = e4

\* C22: nothing cancels an animation request or drops its response: whenever
\* the response of a pending request is read while the panel exists, its
\* 'getPNGOfNode' command carrying that request's image is posted, whatever
\* selections were handled and whatever images were delivered since the
\* request was made.
C22_StaleAnimationDelivered ==
    [][ \A i \in 1..Len(tasks) :
            (lastOp' = Op("fetchResponded", "", i) /\ tasks[i].kind = "fetch"
                /\ webViewPanel # "none")
            => sent' = <<Msg("getPNGOfNode", [png |-> tasks[i].info])>> ]_vars

\* state 1 was selected, then state 2; the image of state 2 was delivered
\* first and the image of state 1 has just been delivered after it
C22_Witness ==
    /\ InOrder(Event("stateSelected", 1, ""), Event("stateSelected", 2, ""),
               Event("getPNGOfNode", 0, stateInfoOf(2)),
               Event("getPNGOfNode", 0, stateInfoOf(1)))
    /\ lastOp.op = "fetchResponded"
    /\ sent = <<Msg("getPNGOfNode", [png |-> stateInfoOf(1)])>>
    /\ \A i \in 1..Len(tasks) : tasks[i].kind # "fetch"

\* C23: overlapping selections complete in no fixed order: a plan report that
\* is generated is posted as 'showStatePlan' for its own state whether or not
\* the report of an earlier selection is still being generated, so the
\* commands need not follow the order of the selections.
C23_PlansInCompletionOrder ==
    [][ \A i \in 1..Len(tasks) :
            (lastOp' = Op("planGenerated", "", i) /\ tasks[i].kind = "plan"
                /\ webViewPanel # "none")
            => /\ sent' = <<Msg("showStatePlan", [html |-> tasks[i].state])>>
               /\ tasks' = RemoveAt(tasks, i) ]_vars

\* state 1 was selected, then state 2; the plan of state 2 was posted first
\* and the plan of state 1 has just been posted after it
C23_Witness ==
    /\ InOrder(Event("stateSelected", 1, ""), Event("stateSelected", 2, ""),
               Event("showStatePlan", 2, ""), Event("showStatePlan", 1, ""))
    /\ lastOp.op = "planGenerated"
    /\ Len(sent) = 1
    /\ sent[1].command = "showStatePlan"
    /\ sent[1].state.html.id = 1

\* C24: handling 'stateSelected' issues the animation request in the same run
\* in which the plan report and the scroll are started, whether they returned,
\* are suspended or have failed, and shows no error message; a request that
\* fails, or whose response cannot be read, shows no error message, posts
\* nothing and leaves the suspended plan report and scroll as they are, and a
\* plan report generated afterwards is still posted.
C24_AnimationIndependent ==
    [][ /\ \A id \in 1..MaxStates :
              lastOp' = Op("handleMessage", "stateSelected", id)
              => /\ Len(tasks') > Len(tasks)
                 /\ tasks'[Len(tasks')] = Task("fetch", NoFile, NoState, stateInfoOf(id))
                 /\ SubSeq(tasks', 1, Len(tasks)) = tasks
                 /\ "showErrorMessage" \notin fx'
        /\ \A i \in 1..Len(tasks) :
              (lastOp'.op \in {"fetchFailed", "fetchUnreadable"} /\ lastOp'.n = i)
              => /\ tasks[i].kind = "fetch"
                 /\ tasks' = RemoveAt(tasks, i)
                 /\ sent' = << >>
                 /\ "showErrorMessage" \notin fx'
                 /\ UNCHANGED <<webViewPanel, stateLogFile, stateLogEditor,
                                stateLogLineCache, docClosed>>
        /\ \A i \in 1..Len(tasks) :
              (lastOp' = Op("planGenerated", "", i) /\ webViewPanel # "none")
              => /\ Len(sent') = 1
                 /\ sent'[1].command = "showStatePlan" ]_vars

\* the request of a selection has failed while its plan report and its
\* scroll are still suspended
C24_Witness ==
    /\ lastOp.op \in {"fetchFailed", "fetchUnreadable"}
    /\ \E i, j \in 1..Len(tasks) :
          /\ tasks[i].kind = "plan"
          /\ tasks[j].kind = "reopen"
          /\ tasks[i].state = tasks[j].state
    /\ \A i \in 1..Len(tasks) : tasks[i].kind # "fetch"
    /\ "showErrorMessage" \notin fx

\* the step handles 'startDebugger' or is a call of clear()
IsReset(op) == op = Op("handleMessage", "startDebugger", 0) \/ op = Op("clear", "", 0)

\* C25 as stated, for a scroll that resumes right after the reset: a
\* scrollStateLog that was suspended at the reopen of the document while
\* 'startDebugger' or clear() was handled leaves the cache without an entry
\* when it resumes and finishes (it was invoked before the reset).
C25_NoWriteAcrossReset ==
    [][ (IsReset(lastOp) /\ lastOp'.op = "reopenCompleted")
        => stateLogLineCache' = EmptyCache ]_vars

\* C26: with the pattern option at its default (empty), for every log content
\* and every known state, scrollStateLog reveals no line, writes no cache
\* entry (every line matches, none has a first capture group) and raises no
\* exception; the cache stays empty.
C26_DefaultPatternMatchesNothing ==
    [][ /\ stateLogPattern = PatternDefault => stateLogLineCache' = EmptyCache
        /\ \A o \in OrigIds, f \in Files :
              (stateLogPattern = PatternDefault /\ ScrollLooksUp(o, f))
              => /\ "scan" \in fx'
                 /\ revealed' = NoLine
                 /\ stateLogLineCache' = stateLogLineCache
                 /\ fx' \cap {"thrown", "rejected"} = {} ]_vars

\* under the default pattern a log that has a line of the state was scanned
C26_Witness ==
    /\ stateLogPattern = PatternDefault
    /\ lastOp.op = "scrollStateLog"
    /\ "scan" \in fx
    /\ stateLogEditor # NoFile
    /\ \E k \in 1..Len(logLines[stateLogEditor]) :
          logLines[stateLogEditor][k] = OrigIdOf(lastOp.n)
    /\ revealed = NoLine
    /\ stateLogLineCache = EmptyCache

\* the step is a call of scrollStateLog (direct or from 'stateSelected') for
\* the known state id while a log is bound
ScrollInvoked(id) ==
    /\ \/ lastOp' = Op("scrollStateLog", "", id)
       \/ lastOp' = Op("handleMessage", "stateSelected", id)
    /\ stateLogFile # NoFile /\ stateLogEditor # NoFile /\ search # NoSearch
    /\ id >= 1 /\ id <= nStates[search]

\* C27: scrollStateLog called for a known state while the bound editor's
\* document is closed asks for the same document to be shown again and does
\* no cache lookup, scan or reveal before that; when the document is shown
\* the new editor replaces the bound one, and every reveal is made on a bound
\* editor whose document is open.
C27_ReopenBeforeReveal ==
    [][ /\ \A id \in 1..MaxStates :
              (ScrollInvoked(id) /\ docClosed)
              => /\ "showTextDocument" \in fx'
                 /\ "scan" \notin fx'
                 /\ revealed' = NoLine
                 /\ UNCHANGED <<stateLogLineCache, stateLogEditor, docClosed>>
                 /\ \E k \in 1..Len(tasks') :
                       tasks'[k] = Task("reopen", stateLogEditor, getState(search, id), "")
        /\ \A i \in 1..Len(tasks) :
              (lastOp'.op = "reopenCompleted" /\ lastOp'.n = i)
              => /\ tasks[i].kind = "reopen"
                 /\ stateLogEditor' = tasks[i].file
                 /\ ~docClosed'
        /\ revealed' # NoLine => (stateLogEditor' # NoFile /\ ~docClosed') ]_vars

\* the document was shown again and a line revealed in the new editor
C27_Witness ==
    /\ lastOp.op = "reopenCompleted"
    /\ stateLogEditor = lastOp.a
    /\ ~docClosed
    /\ revealed # NoLine

\* the handlers C28 lists as leaving the cache alone
LeavesCacheAlone(op) ==
    \/ op.op = "handleMessage" /\ op.a \in {"onload", "stopDebugger", "reset", "toggleStateLog"}
    \/ op.op \in {"pickerReturned", "openCompleted"}
    \/ op.op \in {"stateAdded", "stateUpdated", "betterState", "planFound", "planGenerated"}
    \/ op.op \in {"changedViewState", "observe", "setDebuggerState"}

\* the origId of the state a scrollStateLog step is about
ScrolledOrigId ==
    IF lastOp'.op = "reopenCompleted"
    THEN tasks[lastOp'.n].state.origId
    ELSE OrigIdOf(lastOp'.n)

\* C28: a cache entry is added only by a scrollStateLog run that scans on a
\* cache miss, and then exactly one entry, for the origId of its state;
\* handling onload, stopDebugger, reset, toggleStateLog, a search event, a
\* visibility change, observe and setDebuggerState leaves the cache unchanged,
\* and stopDebugger and reset leave the log binding unchanged as well.
C28_CacheWrittenOnDemand ==
    [][ /\ stateLogLineCache' # stateLogLineCache /\ stateLogLineCache' # EmptyCache
            => /\ \/ lastOp'.op \in {"scrollStateLog", "reopenCompleted"}
                  \/ lastOp'.op = "handleMessage" /\ lastOp'.a = "stateSelected"
               /\ "scan" \in fx'
               /\ stateLogLineCache[ScrolledOrigId] = NoLine
               /\ stateLogLineCache'[ScrolledOrigId] # NoLine
               /\ \A o \in OrigIds \ {ScrolledOrigId} :
                     stateLogLineCache'[o] = stateLogLineCache[o]
        /\ LeavesCacheAlone(lastOp') => stateLogLineCache' = stateLogLineCache
        /\ (lastOp'.op = "handleMessage" /\ lastOp'.a \in {"stopDebugger", "reset"})
            => UNCHANGED <<stateLogFile, stateLogEditor, docClosed>> ]_vars

\* 'reset' or 'stopDebugger' was handled with a log bound and a line memoized
C28_Witness ==
    /\ lastOp.op = "handleMessage"
    /\ lastOp.a \in {"stopDebugger", "reset"}
    /\ stateLogFile # NoFile
    /\ stateLogEditor # NoFile
    /\ stateLogLineCache # EmptyCache

\* C29 as stated: in every reachable state each cache entry (origId -> i)
\* names a line of the log in the bound editor (i < line count) whose first
\* capture group is origId, and no line before it has that first group.
C29_CacheSound ==
    \A o \in OrigIds :
        stateLogLineCache[o] # NoLine
        => /\ stateLogEditor # NoFile
           /\ stateLogLineCache[o] < Len(logLines[stateLogEditor])
           /\ stateLogLineCache[o] = FirstMatchingLine(logLines[stateLogEditor], o)

\* the words of s (runs of characters other than brackets, commas and spaces)
\* from position k on, joined by single spaces after out
RECURSIVE WordsJoined(_, _, _, _)
WordsJoined(s, k, out, gap) ==
    IF k > Len(s) THEN out
    ELSE IF s[k] \in Separators THEN WordsJoined(s, k + 1, out, TRUE)
    ELSE WordsJoined(s, k + 1,
                     (IF gap /\ out # << >> THEN Append(out, " ") ELSE out) \o <<s[k]>>,
                     FALSE)

\* the nodes from the root to node d, found by the parent links
RECURSIVE PathTo(_, _)
PathTo(tree, d) ==
    IF tree[d].parent = 0 THEN <<d>> ELSE Append(PathTo(tree, tree[d].parent), d)

\* one parenthesised action per node of path, in the order of path
RECURSIVE ActionsAlong(_, _)
ActionsAlong(tree, path) ==
    IF path = << >> THEN << >>
    ELSE <<"(">> \o WordsJoined(tree[Head(path)].precondition, 1, << >>, FALSE) \o <<")">>
         \o ActionsAlong(tree, Tail(path))

\* C30: for every node of a search tree getNodeActions yields the empty
\* string for the root and otherwise, in root-to-node order, one parenthesised
\* action per non-root node of the path, that is the plan of the parent
\* followed by the node's own action; click hands this plan to
\* planimation.updateWithPlan, with true as second argument exactly for the
\* root, and calls nothing while planimation is undefined.
C30_PlanOfNode ==
    [][ LET tree == plugin.treeData IN
        /\ \A d \in 1..Len(tree) :
              /\ getNodeActions(tree, d) = ActionsAlong(tree, Tail(PathTo(tree, d)))
              /\ d = 1 => getNodeActions(tree, d) = << >>
              /\ d > 1 => getNodeActions(tree, d) =
                              getNodeActions(tree, tree[d].parent)
                              \o ActionsAlong(tree, <<d>>)
        /\ \A d \in 1..Len(tree) :
              plugin'.clicked = d
              => plugin'.updateWithPlan =
                     IF plugin'.planimation = "undefined"
                     THEN << >>
                     ELSE <<[plan |-> ActionsAlong(tree, Tail(PathTo(tree, d))),
                             isRoot |-> d = 1]>> ]_vars

\* a node two steps below the root was clicked and its plan of two actions
\* handed to planimation
C30_Witness ==
    /\ plugin.clicked = 3
    /\ plugin.treeData[3].parent = 2
    /\ plugin.planimation # "undefined"
    /\ Len(plugin.updateWithPlan) = 1
    /\ ~plugin.updateWithPlan[1].isRoot
    /\ Cardinality({k \in 1..Len(plugin.updateWithPlan[1].plan) :
                      plugin.updateWithPlan[1].plan[k] = "("}) = 2

\* the call chains of initialisePlanimation that exist
Chains == 1..Len(plugin.chains)

\* call chain i, a chain not yet called where there is none
ChainOf(i) == IF i \in Chains THEN plugin.chains[i] ELSE NewChain

\* call chain i makes a step
Moves(i) == i \in Chains /\ plugin'.chains[i] # plugin.chains[i]

\* how call chains step: the library is required and the object is created
\* with the element in the document only; a timer that fires with the element
\* absent sets the next timer, one that fires with the element present
\* requires the library; the callback creates the object and appends one
\* view; a chain that has created its object makes no further step
C31_ChainSteps ==
    [][ \A i \in 1..MaxChains :
          /\ Moves(i) /\ plugin'.chains[i].pc \in {"require", "done", "threw"}
                => plugin.element
          /\ plugin'.planimation # plugin.planimation
                => plugin.element /\ plugin'.planimation = "Planimation"
          /\ Moves(i) /\ plugin.chains[i].pc = "timer" /\ ~plugin.element
                => /\ plugin'.chains[i].pc = "timer"
                   /\ plugin'.chains[i].timeouts # plugin.chains[i].timeouts
                   /\ plugin'.planimation = plugin.planimation
                   /\ plugin'.views = plugin.views
          /\ Moves(i) /\ plugin.chains[i].pc = "timer" /\ plugin.element
                => /\ plugin'.chains[i].pc = "require"
                   /\ plugin'.views = plugin.views
          /\ Moves(i) /\ plugin.chains[i].pc = "require"
                => \/ /\ plugin'.chains[i].pc = "done"
                      /\ plugin'.planimation = "Planimation"
                      /\ plugin'.views = plugin.views + 1
                   \/ /\ plugin'.chains[i].pc = "failed"
                      /\ plugin'.views = plugin.views
          /\ i \in Chains /\ plugin.chains[i].pc \in {"done", "failed"}
                => plugin'.chains[i] = plugin.chains[i]
      ]_vars

\* with the element absent every call chain waits for its timer; the views in
\* the element are one for each chain that has created its object, and the
\* object is defined as soon as one has
C31_OneViewForEachChain ==
    [] /\ ~plugin.element => \A i \in Chains : plugin.chains[i].pc = "timer"
       /\ plugin.views = Cardinality({i \in Chains : plugin.chains[i].pc = "done"})
       /\ plugin.views > 0 => plugin.planimation = "Planimation"
       /\ \A i \in Chains : plugin.chains[i].pc # "threw"

\* a call chain that finds the element gets its object unless the library
\* fails to load
C31_EventuallyDefined ==
    \A i \in 1..MaxChains :
        (i \in Chains /\ plugin.element)
            ~> (plugin.planimation = "Planimation" \/ ChainOf(i).pc = "failed")

\* while the element is absent, a timer that is set is followed by the next
C31_RetryGoesOn ==
    \A i \in 1..MaxChains : \A t \in 0..(TimerIds - 1) :
        (i \in Chains /\ ~plugin.element /\ ChainOf(i).timeouts = t)
            ~> (plugin.element \/ ChainOf(i).timeouts # t)

\* C31: initialisePlanimation never creates the Planimation object while the
\* element 'planimation' is absent; while it is absent the function calls
\* itself again from a timer, and at the call that finds the element it
\* requires the library, whose callback creates the object and appends its view
\* once for that call chain. So a chain that finds the element has planimation
\* defined in the end if the library loads, and while the element stays absent
\* the retries go on.
C31_InitialiseRetries ==
    /\ C31_ChainSteps
    /\ C31_OneViewForEachChain
    /\ C31_EventuallyDefined
    /\ C31_RetryGoesOn

\* two call chains have created and appended their objects, the first after
\* two timers at least
C31_Witness ==
    /\ Len(plugin.chains) = 2
    /\ plugin.chains[1] = [pc |-> "done", timeouts |-> 0]
    /\ plugin.chains[2].pc = "done"
    /\ plugin.views = 2
    /\ plugin.planimation = "Planimation"
    /\ plugin.element

====
